---- MODULE Spec2Model ----
(***************************************************************************)
(* KPackage::PackageLoader (src/src/kpackage/packageloader.cpp): the       *)
(* process-wide loader singleton, the per-loader cache of package          *)
(* structures, the discovery of structure plugins through index files or   *)
(* directory scans, and the listing of installed packages.                 *)
(***************************************************************************)
EXTENDS Integers, Sequences, FiniteSets, TLC

(***************************************************************************)
(* Bounds                                                                  *)
(***************************************************************************)
\* number of PackageStructure objects that may be allocated in one run
MaxHandlers == 2

(***************************************************************************)
(* Values                                                                  *)
(***************************************************************************)
NoLoader == "NoLoader"                     \* s_packageTrader == 0
DefaultLoader == "Default"                 \* the object self() allocates
CustomLoaders == {"Custom"}                \* a subclass made by the application
Loaders == {DefaultLoader} \cup CustomLoaders

GenericFormat == "KPackage/Generic"
Formats == {"", GenericFormat, "foo.bar"}
Paths == {"", "pkg"}                       \* packagePath arguments

NullH == 0                                 \* a null PackageStructure pointer
Absent == -1                               \* no entry in the QHash
HookH == -2                                \* a structure owned by an override hook
Handlers == 1..MaxHandlers

\* Package() and Package(structure): a structure reference and a path
Package(structure) == [structure |-> structure, path |-> ""]
InvalidPackage == Package(NullH)
hasValidStructure(p) == p.structure # NullH
setPath(p, path) == [p EXCEPT !.path = path]

(***************************************************************************)
(* Strings that are concatenated into paths are sequences of tokens; the   *)
(* token "/" is the directory separator.  A file is identified by the      *)
(* components of its path.                                                 *)
(***************************************************************************)
Sep == "/"
IndexName == <<"kpluginindex.json">>
subDirectory == <<"kpackage", Sep, "packagestructure">>

Front(s) == SubSeq(s, 1, Len(s) - 1)
Last(s) == s[Len(s)]

\* length of the longest prefix of s that holds no separator
RECURSIVE NameLen(_)
NameLen(s) ==
    IF s = <<>> \/ Head(s) = Sep THEN 0 ELSE 1 + NameLen(Tail(s))

\* the components of a path: the names between separators
RECURSIVE Components(_)
Components(s) ==
    IF s = <<>> THEN <<>>
    ELSE IF Head(s) = Sep THEN Components(Tail(s))
    ELSE LET n == NameLen(s)
         IN  <<SubSeq(s, 1, n)>> \o Components(SubSeq(s, n + 1, Len(s)))

\* a QString as the tokens of a path
Tokens(str) ==
    CASE str = "" -> <<>>
      [] str = GenericFormat -> <<"KPackage", Sep, "Generic">>
      [] str = "r/" -> <<"r", Sep>>
      [] OTHER -> <<str>>

(***************************************************************************)
(* The file system: a function from directories (component sequences) to   *)
(* their content: the decoded index file when there is one, the metadata   *)
(* records a scan of the directory finds, and other files by name.         *)
(***************************************************************************)
Record(id, file, valid, types) ==
    [pluginId |-> id, fileName |-> file, valid |-> valid, serviceTypes |-> types]

Dir(hasIndex, index, found, strays) ==
    [hasIndex |-> hasIndex, index |-> index, found |-> found, strays |-> strays]

NoFiles == [n \in {} |-> <<>>]

\* QFile::exists
FileExists(fs, path) ==
    LET c == Components(path)
    IN  /\ c # <<>>
        /\ Front(c) \in DOMAIN fs
        /\ IF Last(c) = IndexName
           THEN fs[Front(c)].hasIndex
           ELSE Last(c) \in DOMAIN fs[Front(c)].strays

\* QJsonDocument::fromBinaryData(file.readAll()).array()
ReadIndex(fs, path) ==
    LET c == Components(path)
    IN  IF Last(c) = IndexName THEN fs[Front(c)].index
        ELSE fs[Front(c)].strays[Last(c)]

\* KPluginLoader::findPlugins / QDirIterator over metadata.desktop files
ScanDir(fs, dir) ==
    LET c == Components(dir)
    IN  IF c \in DOMAIN fs THEN fs[c].found ELSE <<>>

(***************************************************************************)
(* Plugin directories                                                      *)
(***************************************************************************)
libraryPaths == <<"lib1", "lib2">>         \* QCoreApplication::libraryPaths()

\* dir + separator + subDirectory, with a trailing separator
PluginDir(dir) ==
    LET d == <<dir, Sep>> \o subDirectory
    IN  IF Last(d) # Sep THEN d \o <<Sep>> ELSE d

ModuleFile(dir, id) == <<dir, id>>

\* what a plugin directory may hold: nothing; an empty index file beside a
\* plugin for foo.bar; an index file that lists foo.bar; a plugin for foo.bar
\* and no index file; a plugin whose id is the generic format; an index file
\* whose first record for foo.bar names no file
LibDirKinds == {"none", "emptyindex", "index", "found", "generic", "nofile"}

LibDirContent(dir, kind) ==
    LET foo == Record("foo.bar", ModuleFile(dir, "foo.bar"), TRUE, {})
        gen == Record(GenericFormat, ModuleFile(dir, GenericFormat), TRUE, {})
        nofile == Record("foo.bar", <<>>, TRUE, {})
    IN  CASE kind = "none" -> Dir(FALSE, <<>>, <<>>, NoFiles)
          [] kind = "emptyindex" -> Dir(TRUE, <<>>, <<foo>>, NoFiles)
          [] kind = "index" -> Dir(TRUE, <<foo>>, <<>>, NoFiles)
          [] kind = "found" -> Dir(FALSE, <<>>, <<foo>>, NoFiles)
          [] kind = "generic" -> Dir(FALSE, <<>>, <<gen>>, NoFiles)
          [] kind = "nofile" -> Dir(TRUE, <<nofile, foo>>, <<>>, NoFiles)

LibDirKey(i) == Components(PluginDir(libraryPaths[i]))

\* the file system in which the plugin directories are of the given kinds
LibFs(kinds) ==
    [k \in {LibDirKey(i) : i \in 1..Len(libraryPaths)} |->
        LET i == CHOOSE j \in 1..Len(libraryPaths) : LibDirKey(j) = k
        IN  LibDirContent(libraryPaths[i], kinds[i])]

\* the kinds of lib1 and lib2 in the runs: no plugin anywhere, a plugin in
\* one directory, in both, behind an index file or not
LibFileSystems ==
    { <<"none", "none">>, <<"none", "found">>, <<"none", "generic">>,
      <<"index", "none">>, <<"index", "found">>, <<"index", "nofile">>,
      <<"emptyindex", "none">> }

\* the plugin directories of the runs that list packages
ListLibFileSystems == {<<"none", "none">>, <<"index", "none">>}

\* what loading a module and asking its factory for a structure may give:
\* KPluginLoader::factory() is null (the module does not load, or it has no
\* factory), the factory creates nothing, or it creates a structure
Outcomes == {"loadfail", "nofactory", "createnull", "ok"}

VARIABLES
    s_packageTrader,    \* the singleton: NoLoader or a loader
    isDefaultLoader,    \* d->isDefaultLoader of each loader
    structures,         \* d->structures of each loader
    created,            \* the number of PackageStructure objects allocated
    alive,              \* the allocated structures not yet deleted
    libFs,              \* the kinds of the plugin directories
    op                  \* the last call: arguments, result and what it did

vars == <<s_packageTrader, isDefaultLoader, structures, created, alive, libFs, op>>

\* a variant that hands out the stored pointer without the liveness check
Data_Unchecked(entry, live) == IF entry \in Handlers THEN entry ELSE NullH

\* QPointer::data(): null when there is no entry or the object is gone
Data(entry, live) == IF entry \in live THEN entry ELSE NullH

NoCall ==
    [name |-> "none", loader |-> NoLoader, format |-> "", path |-> "",
     before |-> Absent, beforeData |-> NullH,
     hookConsulted |-> FALSE, hookPkg |-> InvalidPackage,
     resolved |-> FALSE, ret |-> NullH, builtin |-> FALSE, pkg |-> InvalidPackage,
     probed |-> <<>>, indexRead |-> <<>>, scanned |-> <<>>,
     instantiated |-> <<>>, outcome |-> "none", warned |-> FALSE,
     declared |-> "", actualRoot |-> <<>>, dataFs |-> "none", list |-> <<>>,
     listProbed |-> <<>>, listIndexRead |-> <<>>, listScanned |-> <<>>]

Init ==
    /\ s_packageTrader = NoLoader
    /\ isDefaultLoader = [l \in Loaders |-> FALSE]
    /\ structures = [l \in Loaders |-> [f \in Formats |-> Absent]]
    /\ created = 0
    /\ alive = {}
    /\ libFs \in LibFileSystems
    /\ op = NoCall

(***************************************************************************)
(* PackageLoader::loadPackageStructure, lines 289-322: the plugin          *)
(* directories are visited in order; in each one the index file, when it   *)
(* exists, is read, and otherwise the directory is scanned.  The file name *)
(* of the first record of a directory whose plugin id is the format is     *)
(* assigned to pluginFileName.                                             *)
(***************************************************************************)
\* a variant that takes every record for a match
Matching_AnyId(recs, packageFormat) == recs

\* the records of recs whose plugin id is the format
RECURSIVE Matching(_, _)
Matching(recs, packageFormat) ==
    IF recs = <<>> THEN <<>>
    ELSE IF Head(recs).pluginId = packageFormat
         THEN <<Head(recs)>> \o Matching(Tail(recs), packageFormat)
         ELSE Matching(Tail(recs), packageFormat)

\* the records the loop looks at in one directory
Candidates(fs, plugindir, indexed) ==
    IF indexed THEN ReadIndex(fs, plugindir \o IndexName) ELSE ScanDir(fs, plugindir)

\* what the loop has done after one more directory
Probed(acc, dir, indexed, hits) ==
    [pluginFileName |-> IF hits # <<>> THEN Head(hits).fileName
                        ELSE acc.pluginFileName,
     probed |-> Append(acc.probed, dir),
     indexRead |-> IF indexed THEN Append(acc.indexRead, dir) ELSE acc.indexRead,
     scanned |-> IF indexed THEN acc.scanned ELSE Append(acc.scanned, dir)]

ProbeDir(fs, plugindir, packageFormat, acc, indexed) ==
    Probed(acc, Components(plugindir), indexed,
           Matching(Candidates(fs, plugindir, indexed), packageFormat))

RECURSIVE Discover(_, _, _, _)
Discover(fs, i, packageFormat, acc) ==
    IF i > Len(libraryPaths) THEN acc
    ELSE Discover(fs, i + 1, packageFormat,
                  ProbeDir(fs, PluginDir(libraryPaths[i]), packageFormat, acc,
                           FileExists(fs, PluginDir(libraryPaths[i]) \o IndexName)))

NoDiscovery ==
    [pluginFileName |-> <<>>, probed |-> <<>>, indexRead |-> <<>>, scanned |-> <<>>]

\* the loop's result for every content of the plugin directories and format
Discovery ==
    [kinds \in LibFileSystems, packageFormat \in Formats |->
        Discover(LibFs(kinds), 1, packageFormat, NoDiscovery)] @@ <<>>

(***************************************************************************)
(* PackageLoader::loadPackageStructure as a function of the loader's       *)
(* cache, the number of allocated structures, the live ones, the format,   *)
(* the plugin directories and what the module does when it is loaded.      *)
(* Lines 269-274 (cached is the cache's value), 324-345 (disc is what the  *)
(* loop over the directories found).                                       *)
(***************************************************************************)
Instantiate(cache, n, alv, packageFormat, cached, disc, outcome) ==
    LET builtin == cached = NullH /\ packageFormat = GenericFormat
        n1 == IF builtin THEN n + 1 ELSE n
        s1 == IF builtin THEN n1 ELSE cached
        found == disc.pluginFileName # <<>>
        factory == found /\ outcome \in {"createnull", "ok"}
        made == factory /\ outcome = "ok"
        n2 == IF made THEN n1 + 1 ELSE n1
        s2 == IF made THEN n2 ELSE IF factory THEN NullH ELSE s1
        error == factory /\ s2 = NullH
    IN  [ret |-> s2,
         cache |-> [cache EXCEPT ![packageFormat] = s2],
         created |-> n2,
         alive |-> alv \cup ((n + 1)..n2),
         builtin |-> builtin,
         probed |-> disc.probed,
         indexRead |-> disc.indexRead,
         scanned |-> disc.scanned,
         instantiated |-> IF found THEN <<disc.pluginFileName>> ELSE <<>>,
         outcome |-> IF found THEN outcome ELSE "none",
         warned |-> s2 # NullH /\ error]

LoadStructure(cache, n, alv, packageFormat, kinds, outcome) ==
    Instantiate(cache, n, alv, packageFormat, Data(cache[packageFormat], alv),
                Discovery[kinds, packageFormat], outcome)

\* the record of a call that ran loadPackageStructure
Resolved(call, r) ==
    [call EXCEPT !.resolved = TRUE, !.ret = r.ret, !.builtin = r.builtin,
                 !.probed = r.probed,
                 !.indexRead = r.indexRead, !.scanned = r.scanned,
                 !.instantiated = r.instantiated, !.outcome = r.outcome,
                 !.warned = r.warned]

Called(name, this, packageFormat, path) ==
    [NoCall EXCEPT !.name = name, !.loader = this, !.format = packageFormat,
                   !.path = path,
                   !.before = structures[this][packageFormat],
                   !.beforeData = Data(structures[this][packageFormat], alive)]

\* a variant without the insert of line 342
Stored_NotInserted(this, r) ==
    /\ r.created <= MaxHandlers
    /\ structures' = structures
    /\ created' = r.created
    /\ alive' = r.alive

\* the effect of loadPackageStructure on the loader's state
Stored(this, r) ==
    /\ r.created <= MaxHandlers
    /\ structures' = [structures EXCEPT ![this] = r.cache]
    /\ created' = r.created
    /\ alive' = r.alive

loadPackageStructure(this, packageFormat, outcome) ==
    /\ this \in Loaders
    /\ \E r \in {LoadStructure(structures[this], created, alive, packageFormat,
                            libFs, outcome)} :
        /\ outcome = "ok" \/ r.outcome = outcome
        /\ Stored(this, r)
        /\ op' = Resolved(Called("loadPackageStructure", this, packageFormat, ""), r)
    /\ UNCHANGED <<s_packageTrader, isDefaultLoader, libFs>>

(***************************************************************************)
(* PackageLoader::internalLoadPackage: the base class returns Package();   *)
(* a subclass returns an invalid package or one with its own structure.    *)
(***************************************************************************)
internalLoadPackage(this) ==
    IF this \in CustomLoaders
    THEN {InvalidPackage, Package(HookH), setPath(Package(HookH), "hook")}
    ELSE {InvalidPackage}

(***************************************************************************)
(* PackageLoader::loadPackage                                              *)
(***************************************************************************)
Applied(p, packagePath) == IF packagePath # "" THEN setPath(p, packagePath) ELSE p

\* a variant that returns early only for the empty format
Served_Never(this, hook) == FALSE

\* lines 153-155: the hook is asked and what it returns has a valid structure
Served(this, hook) == ~isDefaultLoader[this] /\ hasValidStructure(hook)

\* a variant without the check of lines 163-165
EmptyFormat_Unchecked(packageFormat) == FALSE

\* line 163
EmptyFormat(packageFormat) == packageFormat = ""

loadPackage(this, packageFormat, packagePath, hook, outcome) ==
    /\ this \in Loaders
    /\ \E call \in {[Called("loadPackage", this, packageFormat, packagePath) EXCEPT
                    !.hookConsulted = ~isDefaultLoader[this],
                    !.hookPkg = IF ~isDefaultLoader[this] THEN hook
                                ELSE InvalidPackage]} :
        /\ call.hookConsulted \/ hook = InvalidPackage
        /\ IF Served(this, hook)
           THEN /\ outcome = "ok"
                /\ op' = [call EXCEPT !.pkg = Applied(hook, packagePath)]
                /\ UNCHANGED <<structures, created, alive>>
           ELSE IF EmptyFormat(packageFormat)
           THEN /\ outcome = "ok"
                /\ op' = [call EXCEPT !.pkg = InvalidPackage]
                /\ UNCHANGED <<structures, created, alive>>
           ELSE \E r \in {LoadStructure(structures[this], created, alive,
                                        packageFormat, libFs, outcome)} :
                /\ outcome = "ok" \/ r.outcome = outcome
                /\ Stored(this, r)
                /\ op' = [Resolved(call, r) EXCEPT
                            !.pkg = IF r.ret # NullH
                                    THEN Applied(Package(r.ret), packagePath)
                                    ELSE InvalidPackage]
    /\ UNCHANGED <<s_packageTrader, isDefaultLoader, libFs>>

(***************************************************************************)
(* Data directories, as listPackages finds them when it is called          *)
(***************************************************************************)
standardLocations == <<"d1", "d2">>        \* QStandardPaths::standardLocations
Roots == {"", "r", "r/"}                   \* packageRoot arguments
DefaultRoots == {"", "r/"}                 \* what Package::defaultPackageRoot gives

PackageRecords(datadir) ==
    << Record("a", <<datadir, "a">>, TRUE, {"foo.bar"}),
       Record("bad", <<datadir, "bad">>, FALSE, {"foo.bar"}),
       Record("b", <<datadir, "b">>, TRUE, {"other"}) >>

StrayName == <<"r", "kpluginindex.json">>

\* what the data locations may hold.  "scan": no index file anywhere;
\* "index": d1/r holds an index file that lists its packages; "emptyindex":
\* d1/r holds an empty index file and d2/r a full one; "stray": no index
\* file in d1/r, and a file named rkpluginindex.json in d1
DataFileSystems == {"scan", "index", "emptyindex", "stray"}

DataDirContent(k, kind) ==
    LET recs == PackageRecords(k[1][1])
    IN  CASE k = <<<<"d1">>>> /\ kind = "stray" ->
               Dir(FALSE, <<>>, recs, [n \in {StrayName} |-> <<recs[3]>>])
          [] k = <<<<"d1">>, <<"r">>>> /\ kind = "index" ->
               Dir(TRUE, recs, recs, NoFiles)
          [] k = <<<<"d1">>, <<"r">>>> /\ kind = "emptyindex" ->
               Dir(TRUE, <<>>, recs, NoFiles)
          [] k = <<<<"d2">>, <<"r">>>> /\ kind = "emptyindex" ->
               Dir(TRUE, recs, recs, NoFiles)
          [] OTHER -> Dir(FALSE, <<>>, recs, NoFiles)

\* the file system of the given kind
DataFs(kind) ==
    [k \in {<<<<d>>>> : d \in {"d1", "d2"}} \cup
           {<<<<d>>, <<"r">>>> : d \in {"d1", "d2"}} |-> DataDirContent(k, kind)]

(***************************************************************************)
(* PackageLoader::listPackages, lines 217-262: every data location is      *)
(* probed for an index file, which is read when it exists; otherwise the   *)
(* directory is scanned.                                                   *)
(***************************************************************************)
RECURSIVE Valid(_)
Valid(recs) ==
    IF recs = <<>> THEN <<>>
    ELSE IF Head(recs).valid THEN <<Head(recs)>> \o Valid(Tail(recs))
         ELSE Valid(Tail(recs))

RECURSIVE OfType(_, _)
OfType(recs, packageFormat) ==
    IF recs = <<>> THEN <<>>
    ELSE IF packageFormat = "" \/ packageFormat \in Head(recs).serviceTypes
         THEN <<Head(recs)>> \o OfType(Tail(recs), packageFormat)
         ELSE OfType(Tail(recs), packageFormat)

ListDir(fs, plugindir, packageFormat, acc, indexed) ==
    [lst |-> acc.lst \o
             (IF indexed THEN Valid(ReadIndex(fs, plugindir \o IndexName))
              ELSE OfType(Valid(ScanDir(fs, plugindir)), packageFormat)),
     probed |-> Append(acc.probed, Components(plugindir)),
     indexRead |-> IF indexed
                   THEN Append(acc.indexRead, Components(plugindir \o IndexName))
                   ELSE acc.indexRead,
     scanned |-> IF indexed THEN acc.scanned
                 ELSE Append(acc.scanned, Components(plugindir))]

\* a variant that lists the first data location only
ListDirs_FirstOnly(fs, i, actualRoot, packageFormat, acc) ==
    ListDir(fs, <<standardLocations[1], Sep>> \o actualRoot, packageFormat, acc,
            FileExists(fs, <<standardLocations[1], Sep>> \o actualRoot
                           \o IndexName))

RECURSIVE ListDirs(_, _, _, _, _)
ListDirs(fs, i, actualRoot, packageFormat, acc) ==
    IF i > Len(standardLocations) THEN acc
    ELSE ListDirs(fs, i + 1, actualRoot, packageFormat,
                  ListDir(fs, <<standardLocations[i], Sep>> \o actualRoot,
                          packageFormat, acc,
                          FileExists(fs, <<standardLocations[i], Sep>> \o actualRoot
                                         \o IndexName)))

NoListing == [lst |-> <<>>, probed |-> <<>>, indexRead |-> <<>>, scanned |-> <<>>]

\* the loop's result for every content of the data directories, root and format
Listing ==
    [kind \in DataFileSystems,
     actualRoot \in {Tokens(x) : x \in Roots \cup DefaultRoots \cup Formats},
     packageFormat \in Formats |->
        ListDirs(DataFs(kind), 1, actualRoot, packageFormat, NoListing)] @@ <<>>

\* a variant without the fallback of lines 212-214
ActualRoot_NoFallback(packageFormat, packageRoot, structure, declared) ==
    IF Tokens(packageRoot) = <<>> /\ structure # NullH THEN Tokens(declared)
    ELSE Tokens(packageRoot)

\* lines 188-214: the root that is appended to every data location
ActualRoot(packageFormat, packageRoot, structure, declared) ==
    LET given == Tokens(packageRoot)
        taken == IF given = <<>> /\ structure # NullH THEN Tokens(declared)
                 ELSE given
    IN  IF taken = <<>> THEN Tokens(packageFormat) ELSE taken

\* the record of a call that listed the data directories
Listed(call, fs, actualRoot) ==
    [call EXCEPT !.dataFs = fs, !.actualRoot = actualRoot,
                 !.list = Listing[fs, actualRoot, call.format].lst,
                 !.listProbed = Listing[fs, actualRoot, call.format].probed,
                 !.listIndexRead = Listing[fs, actualRoot, call.format].indexRead,
                 !.listScanned = Listing[fs, actualRoot, call.format].scanned]

(***************************************************************************)
(* PackageLoader::listPackages                                             *)
(***************************************************************************)
listPackages(this, packageFormat, packageRoot, declared, fs, outcome) ==
    /\ this \in Loaders
    /\ \E call \in {[Called("listPackages", this, packageFormat, packageRoot)
                     EXCEPT !.declared = declared]} :
        /\ IF packageRoot # ""
           THEN /\ outcome = "ok" /\ declared = ""
                /\ op' = Listed(call, fs,
                                ActualRoot(packageFormat, packageRoot, NullH, declared))
                /\ UNCHANGED <<structures, created, alive>>
           ELSE IF call.beforeData # NullH
           THEN \* the cached structure is inserted again
                /\ outcome = "ok"
                /\ structures' = [structures EXCEPT
                                    ![this][packageFormat] = call.beforeData]
                /\ op' = Listed([call EXCEPT !.ret = call.beforeData], fs,
                                ActualRoot(packageFormat, packageRoot,
                                           call.beforeData, declared))
                /\ UNCHANGED <<created, alive>>
           ELSE IF packageFormat = GenericFormat
           THEN \* new GenericPackage(), inserted
                /\ outcome = "ok"
                /\ created + 1 <= MaxHandlers
                /\ created' = created + 1
                /\ alive' = alive \cup {created + 1}
                /\ structures' = [structures EXCEPT
                                    ![this][packageFormat] = created + 1]
                /\ op' = Listed([call EXCEPT !.ret = created + 1, !.builtin = TRUE],
                                fs, ActualRoot(packageFormat, packageRoot,
                                               created + 1, declared))
           ELSE \E r \in {LoadStructure(structures[this], created, alive,
                                        packageFormat, libFs, outcome)} :
                /\ outcome = "ok" \/ r.outcome = outcome
                /\ r.ret # NullH \/ declared = ""
                /\ Stored(this, r)
                /\ op' = Listed(Resolved(call, r), fs,
                                ActualRoot(packageFormat, packageRoot, r.ret, declared))
    /\ UNCHANGED <<s_packageTrader, isDefaultLoader, libFs>>

(***************************************************************************)
(* A PackageStructure is deleted by code outside the loader; the QPointer  *)
(* entries that refer to it become null.                                   *)
(***************************************************************************)
destroy(h) ==
    /\ h \in alive
    /\ alive' = alive \ {h}
    /\ op' = [NoCall EXCEPT !.name = "destroy", !.ret = h]
    /\ UNCHANGED <<s_packageTrader, isDefaultLoader, structures, created, libFs>>

(***************************************************************************)
(* PackageLoader::setPackageLoader                                         *)
(***************************************************************************)
\* a variant that takes a null loader for a request for the default one
setPackageLoader_NullMakesDefault(loader) ==
    /\ s_packageTrader' = IF s_packageTrader # NoLoader THEN s_packageTrader
                          ELSE IF loader = NoLoader THEN DefaultLoader
                          ELSE loader
    /\ op' = [NoCall EXCEPT !.name = "setPackageLoader", !.loader = loader]
    /\ UNCHANGED <<isDefaultLoader, structures, created, alive, libFs>>

\* a variant without the check of line 129
setPackageLoader_Unguarded(loader) ==
    /\ s_packageTrader' = loader
    /\ op' = [NoCall EXCEPT !.name = "setPackageLoader", !.loader = loader]
    /\ UNCHANGED <<isDefaultLoader, structures, created, alive, libFs>>

setPackageLoader(loader) ==
    /\ s_packageTrader' = IF s_packageTrader = NoLoader THEN loader
                          ELSE s_packageTrader
    /\ op' = [NoCall EXCEPT !.name = "setPackageLoader", !.loader = loader]
    /\ UNCHANGED <<isDefaultLoader, structures, created, alive, libFs>>

(***************************************************************************)
(* PackageLoader::self                                                     *)
(***************************************************************************)
\* a variant without the assignment of line 145
self_Unmarked ==
    /\ s_packageTrader' = IF s_packageTrader = NoLoader THEN DefaultLoader
                          ELSE s_packageTrader
    /\ op' = [NoCall EXCEPT !.name = "self", !.loader = s_packageTrader']
    /\ UNCHANGED <<isDefaultLoader, structures, created, alive, libFs>>

self ==
    /\ IF s_packageTrader = NoLoader
       THEN /\ s_packageTrader' = DefaultLoader
            /\ isDefaultLoader' = [isDefaultLoader EXCEPT ![DefaultLoader] = TRUE]
       ELSE UNCHANGED <<s_packageTrader, isDefaultLoader>>
    /\ op' = [NoCall EXCEPT !.name = "self", !.loader = s_packageTrader']
    /\ UNCHANGED <<structures, created, alive, libFs>>

\* the calls of an application, made on the loader self() has returned
Next ==
    \/ \E loader \in CustomLoaders \cup {NoLoader} : setPackageLoader(loader)
    \/ self
    \/ \E packageFormat \in Formats, outcome \in Outcomes :
          loadPackageStructure(s_packageTrader, packageFormat, outcome)
    \/ \E packageFormat \in Formats, packagePath \in Paths,
          hook \in internalLoadPackage(s_packageTrader), outcome \in Outcomes :
          loadPackage(s_packageTrader, packageFormat, packagePath, hook, outcome)
    \/ \E h \in Handlers : destroy(h)

Spec == Init /\ [][Next]_vars

InitList ==
    /\ s_packageTrader = NoLoader
    /\ isDefaultLoader = [l \in Loaders |-> FALSE]
    /\ structures = [l \in Loaders |-> [f \in Formats |-> Absent]]
    /\ created = 0
    /\ alive = {}
    /\ libFs \in ListLibFileSystems
    /\ op = NoCall

\* the calls of an application that lists packages and loads them, on the
\* loader self() has returned
NextList ==
    \/ self
    \/ \E packageFormat \in Formats, packageRoot \in Roots, declared \in DefaultRoots,
          fs \in DataFileSystems, outcome \in Outcomes :
          listPackages(s_packageTrader, packageFormat, packageRoot, declared,
                       fs, outcome)
    \/ \E packageFormat \in Formats, outcome \in Outcomes :
          loadPackageStructure(s_packageTrader, packageFormat, outcome)
    \/ \E packageFormat \in Formats, packagePath \in Paths,
          hook \in internalLoadPackage(s_packageTrader), outcome \in Outcomes :
          loadPackage(s_packageTrader, packageFormat, packagePath, hook, outcome)
    \/ \E h \in Handlers : destroy(h)

SpecList == InitList /\ [][NextList]_vars

(***************************************************************************)
(* Properties                                                              *)
(***************************************************************************)
\* a is an element of the sequence seq
In(a, seq) == \E i \in 1..Len(seq) : seq[i] = a

\* the last call went through none of the discovery of loadPackageStructure
NoDiscoveryRun(call) ==
    /\ call.probed = <<>>
    /\ call.indexRead = <<>>
    /\ call.scanned = <<>>
    /\ call.instantiated = <<>>

\* C1: once the singleton is non-null its identity never changes: a later
\* setPackageLoader leaves it as it is and a later self() returns it.
C1_SingletonFixed ==
    [][s_packageTrader # NoLoader =>
         /\ s_packageTrader' = s_packageTrader
         /\ op'.name = "self" => op'.loader = s_packageTrader]_vars

\* C1 witness: setPackageLoader was called with another loader after the
\* singleton had been installed.
C1_Witness ==
    /\ op.name = "setPackageLoader"
    /\ op.loader \in CustomLoaders
    /\ s_packageTrader = DefaultLoader

\* C2: the loader self() creates is marked default, and loadPackage on it
\* never consults the override hook.
C2_DefaultSkipsHook ==
    /\ s_packageTrader = DefaultLoader => isDefaultLoader[DefaultLoader]
    /\ (op.name = "loadPackage" /\ op.loader = DefaultLoader) =>
          (~op.hookConsulted /\ op.hookPkg = InvalidPackage)

\* C2 witness: loadPackage ran on the lazily created loader.
C2_Witness ==
    /\ op.name = "loadPackage"
    /\ op.loader = DefaultLoader
    /\ op.format = "foo.bar"
    /\ op.resolved

\* C3: on a loader that is not the default one loadPackage asks the hook;
\* when the hook gives a package with a valid structure, that package, with
\* the path applied when it is not empty, is the result, no discovery is
\* run and the cache is left as it was.
C3_HookFirst ==
    [][(op'.name = "loadPackage" /\ ~isDefaultLoader[op'.loader]) =>
         /\ op'.hookConsulted
         /\ hasValidStructure(op'.hookPkg) =>
              /\ op'.pkg.structure = op'.hookPkg.structure
              /\ op'.pkg.path = IF op'.path # "" THEN op'.path ELSE op'.hookPkg.path
              /\ ~op'.resolved
              /\ NoDiscoveryRun(op')
              /\ structures' = structures
              /\ created' = created]_vars

\* C3 witness: the hook of a custom loader served a call that gave a path,
\* for a format whose plugin is installed.
C3_Witness ==
    /\ op.name = "loadPackage"
    /\ op.loader \in CustomLoaders
    /\ op.format = "foo.bar"
    /\ op.path = "pkg"
    /\ op.hookPkg = Package(HookH)
    /\ op.pkg = [structure |-> HookH, path |-> "pkg"]
    /\ libFs = <<"index", "found">>

\* C4: of two consecutive loadPackageStructure(F) calls that resolve F, the
\* second returns the handler of the first and runs no discovery.
C4_CachingIdempotence ==
    [][(/\ op.name = "loadPackageStructure"
        /\ op.ret # NullH
        /\ op'.name = "loadPackageStructure"
        /\ op'.loader = op.loader
        /\ op'.format = op.format) =>
         (op'.ret = op.ret /\ NoDiscoveryRun(op'))]_vars

\* C5: a loadPackageStructure(F) call that finds a null result stored under
\* F returns null and reads no index file and scans no directory.
C5_NegativeCaching ==
    (op.name = "loadPackageStructure" /\ op.before = NullH) =>
        (op.ret = NullH /\ NoDiscoveryRun(op))

\* C6: for the generic format loadPackageStructure returns a handler, and
\* loadPackage a valid package whose path is unset when no path is given.
C6_GenericAlwaysValid ==
    /\ (op.name = "loadPackageStructure" /\ op.format = GenericFormat) =>
          op.ret # NullH
    /\ (/\ op.name = "loadPackage"
        /\ op.format = GenericFormat
        /\ ~hasValidStructure(op.hookPkg)) =>
          /\ hasValidStructure(op.pkg)
          /\ op.path = "" => op.pkg.path = ""

\* C7: resolving the generic format probes no plugin directory, scans none,
\* instantiates no module, and leaves the built-in handler in the cache.
C7_GenericNoDiscovery ==
    (op.resolved /\ op.format = GenericFormat) =>
        /\ NoDiscoveryRun(op)
        /\ op.ret # NullH
        /\ structures[op.loader][GenericFormat] = op.ret

\* no index record and no descriptor of a plugin directory has the id
NoRecordIn(fs, packageFormat) ==
    \A k \in DOMAIN fs :
        /\ ~In(packageFormat, [i \in DOMAIN fs[k].index |-> fs[k].index[i].pluginId])
        /\ ~In(packageFormat, [i \in DOMAIN fs[k].found |-> fs[k].found[i].pluginId])

\* the same, for every content of the plugin directories and format
NoRecord ==
    [kinds \in LibFileSystems, packageFormat \in Formats |->
        NoRecordIn(LibFs(kinds), packageFormat)] @@ <<>>

NoRecordFor(packageFormat) == NoRecord[libFs, packageFormat]

\* C8: for a format that is not the generic one, is not served by a hook
\* and is the id of no record on disk, loadPackageStructure returns null
\* and loadPackage an invalid package.
C8_UnknownFormatFails ==
    (op.format # GenericFormat /\ NoRecordFor(op.format)) =>
        /\ op.name = "loadPackageStructure" => op.ret = NullH
        /\ (op.name = "loadPackage" /\ ~hasValidStructure(op.hookPkg)) =>
              op.pkg = InvalidPackage

\* C8 witness: loadPackage resolved foo.bar while another plugin only is
\* installed.
C8_Witness ==
    /\ op.name = "loadPackage"
    /\ op.format = "foo.bar"
    /\ op.resolved
    /\ libFs = <<"none", "generic">>
    /\ op.pkg = InvalidPackage

\* C9 as stated: loadPackage with an empty format returns an invalid
\* package on every loader, without resolving a handler.
C9_EmptyFormatInvalid ==
    (op.name = "loadPackage" /\ op.format = "") =>
        (op.pkg = InvalidPackage /\ ~op.resolved)

\* C9 as amended: loadPackage with an empty format returns an invalid
\* package without resolving a handler, unless the hook of a loader that is
\* not the default one returns a package with a valid structure for it.
C9_EmptyFormatInvalidUnlessHook ==
    (/\ op.name = "loadPackage"
     /\ op.format = ""
     /\ ~(op.hookConsulted /\ hasValidStructure(op.hookPkg))) =>
        (op.pkg = InvalidPackage /\ ~op.resolved /\ NoDiscoveryRun(op))

\* C9 witness: loadPackage("") on a custom loader whose hook declined,
\* with plugins installed.
C9_Witness ==
    /\ op.name = "loadPackage"
    /\ op.format = ""
    /\ op.loader \in CustomLoaders
    /\ op.hookConsulted
    /\ op.pkg = InvalidPackage
    /\ libFs = <<"index", "found">>

\* C10: a directory that holds an index file is not scanned in the call
\* that probes it, in loadPackageStructure and in listPackages.
C10_IndexExcludesScan ==
    /\ \A k \in DOMAIN LibFs(libFs) :
          (In(k, op.probed) /\ LibFs(libFs)[k].hasIndex) => ~In(k, op.scanned)
    /\ op.name = "listPackages" =>
          \A k \in DOMAIN DataFs(op.dataFs) :
              (In(k, op.listProbed) /\ DataFs(op.dataFs)[k].hasIndex) =>
                  ~In(k, op.listScanned)

\* the call read the cache entry of its format
Looked(call) ==
    \/ call.name \in {"loadPackageStructure", "listPackages"} /\ call.path = ""
    \/ call.resolved

\* the call found under its format a structure that had been deleted
FoundDestroyed(call) ==
    Looked(call) /\ call.before \in Handlers /\ call.beforeData = NullH

\* C11: no loadPackageStructure, loadPackage or listPackages call returns
\* or wraps a structure that has been deleted, and a call that finds a
\* deleted structure under its format treats the entry as empty: it makes
\* the built-in structure anew or runs discovery, and what it returns is
\* not the deleted one.
C11_DestroyedNotReused ==
    /\ op.name # "destroy" =>
          /\ op.ret \in Handlers => op.ret \in alive
          /\ op.pkg.structure \in Handlers => op.pkg.structure \in alive
    /\ FoundDestroyed(op) =>
          /\ op.ret # op.before
          /\ op.pkg.structure # op.before
          /\ op.builtin \/ op.probed # <<>>

\* C11 witness: listPackages looked up a format whose cached structure had
\* been deleted, and resolved a new one from the plugin directories.
C11_Witness ==
    /\ op.name = "listPackages"
    /\ FoundDestroyed(op)
    /\ op.format = "foo.bar"
    /\ op.ret \in alive
    /\ op.instantiated # <<>>

\* C12: listPackages with an empty root takes the root the structure it
\* has resolved declares; when it has resolved none, or the declared root is
\* empty, it takes the format, and the root it has taken is appended to
\* every data location.
C12_RootFromStructure ==
    (op.name = "listPackages" /\ op.path = "") =>
        /\ op.actualRoot = IF op.ret # NullH /\ op.declared # ""
                           THEN Tokens(op.declared)
                           ELSE Tokens(op.format)
        /\ op.listProbed =
              [i \in 1..Len(standardLocations) |->
                  Components(<<standardLocations[i], Sep>> \o op.actualRoot)]

\* C12 witness: listPackages resolved a structure that declares no root
\* and listed the directories named after the format.
C12_Witness ==
    /\ op.name = "listPackages"
    /\ op.path = ""
    /\ op.format = "foo.bar"
    /\ op.ret \in Handlers
    /\ op.declared = ""
    /\ op.actualRoot = Tokens("foo.bar")
    /\ Len(op.listProbed) = Len(standardLocations)

\* the records of the i-th plugin directory whose plugin id is the format
Hits(i, packageFormat) ==
    Matching(Candidates(LibFs(libFs), PluginDir(libraryPaths[i]),
                        FileExists(LibFs(libFs),
                                   PluginDir(libraryPaths[i]) \o IndexName)),
             packageFormat)

\* i is the first plugin directory that holds a record for the format
FirstHit(i, packageFormat) ==
    /\ Hits(i, packageFormat) # <<>>
    /\ \A j \in 1..(i - 1) : Hits(j, packageFormat) = <<>>

\* C13: discovery visits the plugin directories in the order of the library
\* paths, the module of the first directory that holds a record for the
\* format is the one that is instantiated, and no directory after it is
\* probed.
C13_FirstMatchWins ==
    \A i \in 1..Len(libraryPaths) :
        (op.resolved /\ FirstHit(i, op.format)) =>
            /\ op.instantiated = <<Head(Hits(i, op.format)).fileName>>
            /\ op.probed = [j \in 1..i |-> LibDirKey(j)]

\* the module the call has found did not give a structure
Failures == {"loadfail", "nofactory", "createnull"}

\* C14: a loadPackageStructure call that has found a module which does not
\* load, has no factory, or whose factory creates nothing, returns null
\* and leaves null in the cache under its format.
C14_FailureYieldsNull ==
    (/\ op.name = "loadPackageStructure"
     /\ op.instantiated # <<>>
     /\ op.outcome \in Failures) =>
        /\ op.ret = NullH
        /\ structures[op.loader][op.format] = NullH

\* C15: a loadPackageStructure call that has found a module which does not
\* load, has no factory, or whose factory creates nothing, emits a warning
\* (and returns: the call is a step of the loader like any other).
C15_FailureWarned ==
    (/\ op.name = "loadPackageStructure"
     /\ op.instantiated # <<>>
     /\ op.outcome \in Failures) => op.warned

\* C16: while the structure cached under a format of a loader is alive, no
\* call replaces the entry, and every loadPackage, loadPackageStructure or
\* listPackages call that looks the format up gives that structure and
\* runs no discovery.
C16_EntryStable ==
    [][\A l \in Loaders, f \in Formats :
          (structures[l][f] \in alive /\ structures[l][f] \in alive') =>
              /\ structures'[l][f] = structures[l][f]
              /\ (op'.loader = l /\ op'.format = f /\ Looked(op')) =>
                    /\ op'.ret = structures[l][f]
                    /\ NoDiscoveryRun(op')]_vars

\* the file system without its index files
Unindexed(fs) ==
    [k \in DOMAIN fs |-> Dir(FALSE, <<>>, fs[k].found, fs[k].strays)]

\* every index file lists the valid descriptors a scan of its directory finds
IndexFaithful(fs) ==
    \A k \in DOMAIN fs : fs[k].hasIndex => Valid(fs[k].index) = Valid(fs[k].found)

\* C17: when every index file lists the valid descriptors of its
\* directory, listPackages returns the records it would return with the
\* index files removed, for every format and root.
C17_IndexScanAgree ==
    (op.name = "listPackages" /\ IndexFaithful(DataFs(op.dataFs))) =>
        op.list = ListDirs(Unindexed(DataFs(op.dataFs)), 1, op.actualRoot,
                           op.format, NoListing).lst

\* the directory holds a file named kpluginindex.json
HoldsIndex(fs, dir) == dir \in DOMAIN fs /\ fs[dir].hasIndex

\* C18: for every data location, listPackages scans the directory made of
\* the location and the root exactly when the directory holds no index
\* file, and lists it from its index file exactly when it holds one.
C18_IndexIffInside ==
    op.name = "listPackages" =>
        \A i \in 1..Len(standardLocations) :
            LET dir == Components(<<standardLocations[i], Sep>> \o op.actualRoot)
            IN  /\ In(dir, op.listScanned) <=> ~HoldsIndex(DataFs(op.dataFs), dir)
                /\ In(dir \o <<IndexName>>, op.listIndexRead)
                      <=> HoldsIndex(DataFs(op.dataFs), dir)

\* what the i-th data location alone gives the call
FromLocation(call, i) ==
    ListDir(DataFs(call.dataFs), <<standardLocations[i], Sep>> \o call.actualRoot,
            call.format, NoListing,
            FileExists(DataFs(call.dataFs),
                       <<standardLocations[i], Sep>> \o call.actualRoot
                       \o IndexName)).lst

\* the records of the data locations i and after, one location after another
RECURSIVE FromLocations(_, _)
FromLocations(call, i) ==
    IF i > Len(standardLocations) THEN <<>>
    ELSE FromLocation(call, i) \o FromLocations(call, i + 1)

\* C19: listPackages probes every data location, and what it returns is
\* the records of the first location followed by those of the next, and so
\* on, with every record of every location kept.
C19_Concatenation ==
    op.name = "listPackages" =>
        /\ Len(op.listProbed) = Len(standardLocations)
        /\ op.list = FromLocations(op, 1)

\* C19 witness: the first location gave two records from its index file,
\* and the second gave again a package named as one of the first.
C19_Witness ==
    /\ op.name = "listPackages"
    /\ op.dataFs = "index"
    /\ op.format = "foo.bar"
    /\ Len(op.list) = 3
    /\ op.list[1].pluginId = "a"
    /\ op.list[3].pluginId = "a"
    /\ op.list[1].fileName[1] = standardLocations[1]
    /\ op.list[3].fileName[1] = standardLocations[2]

\* the last call was setPackageLoader(0), made while no loader was installed
NullLoaderGiven ==
    /\ op.name = "setPackageLoader"
    /\ op.loader = NoLoader
    /\ s_packageTrader = NoLoader

\* C20: setPackageLoader with a null loader, called while no loader is
\* installed, leaves none installed; a setPackageLoader that follows it with
\* a loader installs that loader, and a self() that follows it creates the
\* default loader.
C20_NullLoaderIgnored ==
    [][/\ (/\ s_packageTrader = NoLoader
           /\ op'.name = "setPackageLoader"
           /\ op'.loader = NoLoader) => s_packageTrader' = NoLoader
       /\ NullLoaderGiven =>
             /\ (op'.name = "setPackageLoader" /\ op'.loader # NoLoader) =>
                   s_packageTrader' = op'.loader
             /\ op'.name = "self" =>
                   /\ s_packageTrader' = DefaultLoader
                   /\ isDefaultLoader'[DefaultLoader]
                   /\ op'.loader = DefaultLoader]_vars

\* C20 witness: setPackageLoader(0) has returned and no loader is installed.
C20_Witness == NullLoaderGiven /\ ~isDefaultLoader[DefaultLoader]

\* C21: after a loadPackageStructure call the cache of the loader holds,
\* under the format of the call, what the call has returned, and every
\* other entry of every cache is as it was before the call.
C21_InsertsResultOnly ==
    [][op'.name = "loadPackageStructure" =>
         /\ structures'[op'.loader][op'.format] = op'.ret
         /\ \A l \in Loaders, f \in Formats :
               (l # op'.loader \/ f # op'.format) =>
                   structures'[l][f] = structures[l][f]]_vars

\* C21 witness: loadPackageStructure has resolved foo.bar while the cache
\* held another structure under the generic format.
C21_Witness ==
    /\ op.name = "loadPackageStructure"
    /\ op.format = "foo.bar"
    /\ op.ret \in alive
    /\ structures[op.loader]["foo.bar"] = op.ret
    /\ structures[op.loader][GenericFormat] \in alive
    /\ structures[op.loader][GenericFormat] # op.ret
====
